---- MODULE Spec2Model ----
(***************************************************************************)
(* Model of md2zd.py: the fence substitution pass CODE_RE.sub(md_codeblock, *)
(* md) at character level, and the md2kb pipeline around it.               *)
(*                                                                         *)
(* A Python str is a sequence of one-character strings.  The result of     *)
(* CODE_RE.sub is kept as the list of pieces that re.sub joins: literal    *)
(* slices of the input alternating with the strings md_codeblock returned  *)
(* (t0, w1, t1, ..., wn, tn).  The pygments, cmarkgfm and tidy calls are   *)
(* uninterpreted: each result is a record of the call's arguments.         *)
(***************************************************************************)
EXTENDS Integers, Sequences, FiniteSets, TLC

VARIABLES pc, argv, readable, md, matches, hl, parsed, html, stdout, status, exc, calls

vars == <<pc, argv, readable, md, matches, hl, parsed, html, stdout, status, exc, calls>>

\* ------------------------------------------------------------------ bounds
MaxLines == 5

\* ------------------------------------------------------------- characters
\* the backtick character (written as a name: the string lexer of TLA+ has no backtick)
BT == "BACKTICK"
NL == "\n"

\* the character class [a-z] of CODE_RE
Lower ==
  {"a","b","c","d","e","f","g","h","i","j","k","l","m",
   "n","o","p","q","r","s","t","u","v","w","x","y","z"}

Fence3 == <<BT, BT, BT>>
TagPython == <<"p","y","t","h","o","n">>
TagZzzzz == <<"z","z","z","z","z">>

\* Python's None and a present value (match.groups() gives None for a group
\* that did not take part in the match)
None == [some |-> FALSE, val |-> <<>>]
Some(v) == [some |-> TRUE, val |-> v]

\* str.format / f-string conversion of a value that is a str or None
Format(v) == IF v.some THEN v.val ELSE <<"N","o","n","e">>

\* ------------------------------------------------------------ input files
\* the kinds of line a file is built from
LineKinds ==
  { Fence3,                          \* ```
    Fence3 \o TagPython,             \* ```python
    Fence3 \o TagZzzzz,              \* ```zzzzz
    <<"x">> \o Fence3,               \* x```   (backticks not at line start)
    Fence3 \o <<"X">>,               \* ```X   (backticks not ending the line)
    <<"x">> }                        \* plain text

RECURSIVE JoinLines(_)
JoinLines(ls) ==
  IF Len(ls) = 0 THEN <<>>
  ELSE IF Len(ls) = 1 THEN ls[1]
  ELSE ls[1] \o <<NL>> \o JoinLines(Tail(ls))

\* the readable files: every text of at most MaxLines lines
Docs == { JoinLines(ls) : ls \in UNION { [1..n -> LineKinds] : n \in 0..MaxLines } }

\* ---------------------------------------------------------------- CODE_RE
\* ^ under re.M: at the start of the string or right after a newline
AtLineStart(s, p) == p = 1 \/ (p - 1 <= Len(s) /\ s[p - 1] = NL)

\* $ under re.M: at the end of the string or right before a newline
AtLineEnd(s, p) == p = Len(s) + 1 \/ (p <= Len(s) /\ s[p] = NL)

\* the literal ``` at p
Lit3(s, p) == p + 2 <= Len(s) /\ s[p] = BT /\ s[p + 1] = BT /\ s[p + 2] = BT

\* faulty variant: the closing ``` without its $
CloseAtNoEol(s, e) == AtLineStart(s, e) /\ Lit3(s, e)

\* ^```$ at e
CloseAt(s, e) == AtLineStart(s, e) /\ Lit3(s, e) /\ AtLineEnd(s, e + 3)

\* faulty variant: a greedy body (.+), which runs to the last closing ```
RECURSIVE GreedyBody(_, _)
GreedyBody(s, e) ==
  IF e > Len(s) THEN 0
  ELSE LET later == GreedyBody(s, e + 1)
       IN IF later # 0 THEN later
          ELSE IF CloseAt(s, e) THEN e
          ELSE 0

\* (.+?)^```$ with re.S: the body takes at least one character and as few
\* as possible; the position of the closing ``` or 0 when there is none
RECURSIVE LazyBody(_, _)
LazyBody(s, e) ==
  IF e > Len(s) THEN 0
  ELSE IF CloseAt(s, e) THEN e
  ELSE LazyBody(s, e + 1)

\* faulty variant: the class [a-zA-Z] (re.I) in place of [a-z]
RECURSIVE TagRunAnyCase(_, _)
TagRunAnyCase(s, q) ==
  IF q <= Len(s) /\ s[q] \in Lower \cup {"X"} THEN 1 + TagRunAnyCase(s, q + 1) ELSE 0

\* the longest run of [a-z] from q
RECURSIVE TagRun(_, _)
TagRun(s, q) ==
  IF q <= Len(s) /\ s[q] \in Lower THEN 1 + TagRun(s, q + 1) ELSE 0

NoMatch == [found |-> FALSE]

\* ([a-z]+)?$(.+?)^```$ after the opening ``` at p: the greedy group tries
\* len, len - 1, ..., 1 letters, and at last takes no part in the match
RECURSIVE TryTag(_, _, _)
TryTag(s, p, len) ==
  LET q == p + 3 + len
      e == IF AtLineEnd(s, q) THEN LazyBody(s, q + 1) ELSE 0
  IN IF e # 0
       THEN [found |-> TRUE, start |-> p, end |-> e + 3,
             lang |-> IF len = 0 THEN None ELSE Some(SubSeq(s, p + 3, q - 1)),
             code |-> SubSeq(s, q, e - 1)]
     ELSE IF len = 0 THEN NoMatch
     ELSE TryTag(s, p, len - 1)

\* faulty variant: the opening ``` without its ^
MatchAtUnanchored(s, p) ==
  IF Lit3(s, p) THEN TryTag(s, p, TagRun(s, p + 3))
  ELSE NoMatch

\* CODE_RE.match at p; start is the first character of the match, end the
\* position after its last
MatchAt(s, p) ==
  IF AtLineStart(s, p) /\ Lit3(s, p) THEN TryTag(s, p, TagRun(s, p + 3))
  ELSE NoMatch

\* faulty variant: sub(..., count=1), which stops after the first match
RECURSIVE FinditerFirstOnly(_, _)
FinditerFirstOnly(s, pos) ==
  IF pos > Len(s) THEN <<>>
  ELSE LET m == MatchAt(s, pos)
       IN IF m.found THEN <<m>>
          ELSE FinditerFirstOnly(s, pos + 1)

\* CODE_RE.finditer from pos: the leftmost match, then on from its end
RECURSIVE Finditer(_, _)
Finditer(s, pos) ==
  IF pos > Len(s) THEN <<>>
  ELSE LET m == MatchAt(s, pos)
       IN IF m.found THEN <<m>> \o Finditer(s, m.end)
          ELSE Finditer(s, pos + 1)

\* ----------------------------------------------------------- md_codeblock
\* the names pygments.lexers.get_lexer_by_name knows, among the tags used
LexerAliases == { TagPython }

\* get_lexer_by_name: ClassNotFound (a ValueError) for None, for "" and for
\* an unknown name
get_lexer_by_name(alias) ==
  IF alias.some /\ alias.val \in LexerAliases
    THEN [raised |-> "", lexer |-> alias.val]
    ELSE [raised |-> "ClassNotFound", lexer |-> <<>>]

IsValueError(e) == e \in {"ValueError", "ClassNotFound"}

TextLexer == <<"t","e","x","t">>

LanguagePrefix == <<"l","a","n","g","u","a","g","e","-">>

\* faulty variant: md_codeblock without its except clause
md_codeblockNoExcept(m) ==
  LET got == get_lexer_by_name(m.lang)
  IN IF got.raised # ""
       THEN [raised |-> got.raised, wrap |-> TRUE]
       ELSE [raised |-> "",
             wrap |-> TRUE,
             pre |-> "highlight",
             cls |-> LanguagePrefix \o Format(m.lang),
             formatted |-> [lexer |-> got.lexer, code |-> m.code]]

\* md_codeblock(match): the wrapper string, or the exception it lets out
md_codeblock(m) ==
  LET lang == m.lang
      code == m.code
      got == get_lexer_by_name(lang)
      lexer == IF got.raised = "" THEN got.lexer ELSE TextLexer
  IN IF got.raised # "" /\ ~IsValueError(got.raised)
       THEN [raised |-> got.raised, wrap |-> TRUE]
       ELSE [raised |-> "",
             wrap |-> TRUE,
             pre |-> "highlight",
             cls |-> LanguagePrefix \o Format(lang),
             formatted |-> [lexer |-> lexer, code |-> code]]

\* a literal slice of the input in the output of re.sub
Text(t) == [wrap |-> FALSE, text |-> t]

\* faulty variant: the copy resumes one character after the match, losing it
RECURSIVE SubPiecesSkipOne(_, _, _)
SubPiecesSkipOne(s, ms, pos) ==
  IF Len(ms) = 0 THEN << Text(SubSeq(s, pos, Len(s))) >>
  ELSE << Text(SubSeq(s, pos, ms[1].start - 1)), md_codeblock(ms[1]) >>
         \o SubPiecesSkipOne(s, Tail(ms), ms[1].end + 1)

\* CODE_RE.sub(md_codeblock, s): the pieces joined into the result
RECURSIVE SubPieces(_, _, _)
SubPieces(s, ms, pos) ==
  IF Len(ms) = 0 THEN << Text(SubSeq(s, pos, Len(s))) >>
  ELSE << Text(SubSeq(s, pos, ms[1].start - 1)), md_codeblock(ms[1]) >>
         \o SubPieces(s, Tail(ms), ms[1].end)

\* md_highlight(md)
md_highlight(s) == SubPieces(s, Finditer(s, 1), 1)

\* ------------------------------------------------- external collaborators
CMARK_FLAGS == 132096

md_parse(s) == [fn |-> "cmarkgfm.markdown_to_html", arg |-> s, flags |-> CMARK_FLAGS]

tidy_html(h) ==
  [fn |-> "tidy.parseString", arg |-> h,
   indent |-> "auto", show_body_only |-> TRUE, tidy_mark |-> FALSE]

\* ------------------------------------------------------------ the program
\* readable: whether the path names a file that read_text can read
\* sys.argv[1:]: nothing, one path, or a path and a stray argument
ArgvSet == { <<>>, <<"doc.md">>, <<"doc.md", "more">> }

Init ==
  /\ pc = "run"
  /\ argv \in ArgvSet
  /\ readable \in BOOLEAN
  /\ md = <<>>
  /\ matches = <<>>
  /\ hl = <<>>
  /\ parsed = <<>>
  /\ html = <<>>
  /\ stdout = <<>>
  /\ status = -1
  /\ exc = ""
  /\ calls = <<>>

\* run(): parse_args exits with status 2 unless argv holds exactly the path
ParseArgs ==
  /\ pc = "run"
  /\ IF Len(argv) = 1
       THEN /\ pc' = "md2kb"
            /\ UNCHANGED <<status, exc>>
       ELSE /\ pc' = "exit"
            /\ status' = 2
            /\ exc' = "SystemExit"
  /\ UNCHANGED <<argv, readable, md, matches, hl, parsed, html, stdout, calls>>

\* faulty variant: md2kb catches the OSError and goes on with an empty text
ReadTextCaught ==
  /\ pc = "md2kb"
  /\ IF readable
       THEN \E text \in Docs : md' = text
       ELSE md' = <<>>
  /\ pc' = "md_highlight"
  /\ calls' = Append(calls, "read_text")
  /\ UNCHANGED <<argv, readable, matches, hl, parsed, html, stdout, status, exc>>

\* md2kb: filepath.read_text(); an OSError is not caught anywhere
ReadText ==
  /\ pc = "md2kb"
  /\ IF readable
       THEN \E text \in Docs :
              /\ md' = text
              /\ pc' = "md_highlight"
              /\ calls' = Append(calls, "read_text")
              /\ UNCHANGED <<status, exc>>
       ELSE /\ pc' = "exit"
            /\ status' = 1
            /\ exc' = "OSError"
            /\ UNCHANGED <<md, calls>>
  /\ UNCHANGED <<argv, readable, matches, hl, parsed, html, stdout>>

\* md_highlight_and_parse: the argument md_highlight(md) is evaluated first
CallMdHighlight ==
  /\ pc = "md_highlight"
  /\ LET out == md_highlight(md)
     IN /\ matches' = Finditer(md, 1)
        /\ calls' = Append(calls, "md_highlight")
        /\ IF \E i \in 1..Len(out) : out[i].wrap /\ out[i].raised # ""
             THEN /\ pc' = "exit"
                  /\ status' = 1
                  /\ exc' = "Exception"
                  /\ UNCHANGED hl
             ELSE /\ pc' = "md_parse"
                  /\ hl' = out
                  /\ UNCHANGED <<status, exc>>
  /\ UNCHANGED <<argv, readable, md, parsed, html, stdout>>

\* faulty variant: md_parse is given the text as read, not what md_highlight returned
CallMdParseRaw ==
  /\ pc = "md_parse"
  /\ parsed' = md_parse(<< Text(md) >>)
  /\ calls' = Append(calls, "md_parse")
  /\ pc' = "tidy_html"
  /\ UNCHANGED <<argv, readable, md, matches, hl, html, stdout, status, exc>>

\* md_parse(...) on what md_highlight returned
CallMdParse ==
  /\ pc = "md_parse"
  /\ parsed' = md_parse(hl)
  /\ calls' = Append(calls, "md_parse")
  /\ pc' = "tidy_html"
  /\ UNCHANGED <<argv, readable, md, matches, hl, html, stdout, status, exc>>

\* html = tidy_html(md_highlight_and_parse(md))
CallTidyHtml ==
  /\ pc = "tidy_html"
  /\ html' = tidy_html(parsed)
  /\ calls' = Append(calls, "tidy_html")
  /\ pc' = "print"
  /\ UNCHANGED <<argv, readable, md, matches, hl, parsed, stdout, status, exc>>

\* print(html), then run() returns and the process ends with status 0
PrintHtml ==
  /\ pc = "print"
  /\ stdout' = Append(stdout, [text |-> html, end |-> NL])
  /\ calls' = Append(calls, "print")
  /\ pc' = "exit"
  /\ status' = 0
  /\ UNCHANGED <<argv, readable, md, matches, hl, parsed, html, exc>>

Next ==
  \/ ParseArgs
  \/ ReadText
  \/ CallMdHighlight
  \/ CallMdParse
  \/ CallTidyHtml
  \/ PrintHtml

Spec == Init /\ [][Next]_vars

\* --------------------------------------------------- the line view of a text
\* used by the properties only: the lines of a text, as str.split("\n")
RECURSIVE SplitFrom(_, _, _)
SplitFrom(s, i, cur) ==
  IF i > Len(s) THEN << cur >>
  ELSE IF s[i] = NL THEN << cur >> \o SplitFrom(s, i + 1, <<>>)
  ELSE SplitFrom(s, i + 1, Append(cur, s[i]))

SplitLines(s) == SplitFrom(s, 1, <<>>)

\* the position of the first character of line i
RECURSIVE LineStart(_, _)
LineStart(ls, i) ==
  IF i = 1 THEN 1 ELSE LineStart(ls, i - 1) + Len(ls[i - 1]) + 1

\* the line that position p lies on (the newline ending a line counts to it)
LineOf(ls, p) ==
  CHOOSE i \in 1..Len(ls) :
    LineStart(ls, i) <= p /\ p <= LineStart(ls, i) + Len(ls[i])

\* a line of exactly three backticks
IsBareFence(l) == l = Fence3

\* a line of three backticks and then nothing or a tag of [a-z]+
IsOpenLine(l) ==
  /\ Len(l) >= 3
  /\ SubSeq(l, 1, 3) = Fence3
  /\ \A i \in 4..Len(l) : l[i] \in Lower

TagOf(l) == IF Len(l) = 3 THEN None ELSE Some(SubSeq(l, 4, Len(l)))

\* the lines i .. c-1, each with its newline
RECURSIVE BodyText(_, _, _)
BodyText(ls, i, c) ==
  IF i >= c THEN <<>> ELSE ls[i] \o << NL >> \o BodyText(ls, i + 1, c)

\* the fence opened by line o and closed by line c, as a match of CODE_RE
FenceAsMatch(ls, o, c) ==
  [found |-> TRUE,
   start |-> LineStart(ls, o),
   end |-> LineStart(ls, c) + 3,
   lang |-> TagOf(ls[o]),
   code |-> << NL >> \o BodyText(ls, o + 1, c)]

\* the single-pass line scanner: an inside-fence flag and the opening line;
\* a fence is emitted at a closing line met while inside
RECURSIVE Scan(_, _, _, _)
Scan(ls, i, inside, open) ==
  IF i > Len(ls) THEN <<>>
  ELSE IF ~inside /\ IsOpenLine(ls[i]) THEN Scan(ls, i + 1, TRUE, i)
  ELSE IF inside /\ IsBareFence(ls[i])
    THEN << [open |-> open, close |-> i] >> \o Scan(ls, i + 1, FALSE, 0)
  ELSE Scan(ls, i + 1, inside, open)

ScanFences(ls) == Scan(ls, 1, FALSE, 0)

\* the fence delimiter lines of a text, in order
RECURSIVE Delims(_, _)
Delims(ls, i) ==
  IF i > Len(ls) THEN <<>>
  ELSE IF IsOpenLine(ls[i]) THEN << i >> \o Delims(ls, i + 1)
  ELSE Delims(ls, i + 1)

\* every fence is well formed: the delimiter lines pair up as an opening
\* line and then a closing line of exactly three backticks
WellFormed(ls) ==
  LET d == Delims(ls, 1)
  IN /\ Len(d) % 2 = 0
     /\ \A k \in 1..Len(d) : k % 2 = 0 => IsBareFence(ls[d[k]])

\* the places of the wrappers among the pieces of an output, in order
RECURSIVE WrapperIdx(_, _)
WrapperIdx(out, i) ==
  IF i > Len(out) THEN <<>>
  ELSE IF out[i].wrap THEN << i >> \o WrapperIdx(out, i + 1)
  ELSE WrapperIdx(out, i + 1)

NumWrappers(out) == Len(WrapperIdx(out, 1))

\* the literal text of an output strictly between pieces a and b
RECURSIVE TextBetween(_, _, _)
TextBetween(out, a, b) ==
  IF a + 1 >= b THEN <<>>
  ELSE (IF out[a + 1].wrap THEN <<>> ELSE out[a + 1].text)
         \o TextBetween(out, a + 1, b)

\* an output with its k-th wrapper put back to the k-th matched span of s
RECURSIVE Unsub(_, _, _, _, _)
Unsub(s, out, ms, i, k) ==
  IF i > Len(out) THEN <<>>
  ELSE IF out[i].wrap
    THEN (IF k <= Len(ms) THEN SubSeq(s, ms[k].start, ms[k].end - 1) ELSE <<>>)
           \o Unsub(s, out, ms, i + 1, k + 1)
  ELSE out[i].text \o Unsub(s, out, ms, i + 1, k)

Called(f) == \E i \in 1..Len(calls) : calls[i] = f

IsPrefix(a, b) == Len(a) <= Len(b) /\ a = SubSeq(b, 1, Len(a))

\* md_highlight has just returned: md is its input, hl its output
Highlighted == pc = "md_parse"

Lines == SplitLines(md)

\* ------------------------------------------------------------- properties

\* C1: a text of N well-formed fences and no unterminated one gives exactly N
\* wrappers; the k-th wrapper follows the text that precedes the k-th fence
\* and holds the body of the k-th fence.
C1_FenceCount ==
  (Highlighted /\ WellFormed(Lines)) =>
    LET ls == Lines
        d == Delims(ls, 1)
        n == Len(d) \div 2
        w == WrapperIdx(hl, 1)
    IN /\ Len(w) = n
       /\ \A k \in 1..n :
            /\ TextBetween(hl, IF k = 1 THEN 0 ELSE w[k - 1], w[k])
                 = SubSeq(md,
                          IF k = 1 THEN 1 ELSE LineStart(ls, d[2 * k - 2]) + 3,
                          LineStart(ls, d[2 * k - 1]) - 1)
            /\ hl[w[k]].formatted.code
                 = << NL >> \o BodyText(ls, d[2 * k - 1] + 1, d[2 * k])

C1_Witness ==
  /\ Highlighted
  /\ WellFormed(Lines)
  /\ Len(Delims(Lines, 1)) = 4
  /\ NumWrappers(hl) = 2

\* C2: a fence opened by three backticks with no tag gets the class
\* "language-" with an empty suffix.
C2_EmptySuffix ==
  Highlighted =>
    \A k \in 1..Len(matches) :
      IsBareFence(Lines[LineOf(Lines, matches[k].start)]) =>
        hl[2 * k].cls = LanguagePrefix

\* C3: the output is the input with each matched span replaced by one
\* wrapper and nothing else changed; a text with no closing fence line, and
\* any text with no match, comes back as it was.
C3_PassThrough ==
  Highlighted =>
    /\ NumWrappers(hl) = Len(matches)
    /\ Unsub(md, hl, matches, 1, 1) = md
    /\ (Len(matches) = 0 => hl = << Text(md) >>)
    /\ ((\A i \in 1..Len(Lines) : ~IsBareFence(Lines[i])) => hl = << Text(md) >>)

C3_Witness ==
  /\ Highlighted
  /\ Len(matches) = 1
  /\ hl[1].text # <<>>
  /\ hl[3].text # <<>>

LanguagePython == LanguagePrefix \o <<"p","y","t","h","o","n">>
LanguageZzzzz == LanguagePrefix \o <<"z","z","z","z","z">>

\* C4: md_highlight raises nothing; a fence tagged zzzzz is highlighted by
\* the plain-text lexer under the class language-zzzzz, a fence tagged
\* python by the python lexer under language-python.
C4_UnknownLanguage ==
  /\ Called("md_highlight") => exc = ""
  /\ Highlighted =>
       \A k \in 1..Len(matches) :
         LET tag == TagOf(Lines[LineOf(Lines, matches[k].start)])
             w == hl[2 * k]
         IN /\ tag = Some(TagZzzzz) =>
                 /\ w.cls = LanguageZzzzz
                 /\ w.formatted.lexer = TextLexer
            /\ tag = Some(TagPython) =>
                 /\ w.cls = LanguagePython
                 /\ w.formatted.lexer = TagPython

C4_Witness ==
  /\ Highlighted
  /\ \E k \in 1..Len(matches) :
       /\ matches[k].lang = Some(TagZzzzz)
       /\ hl[2 * k].cls = LanguageZzzzz

\* fence A closes, plain text, fence B opens and closes: the closing line of
\* A and the opening line of B
TwoFences(ls) ==
  { pr \in (1..Len(ls)) \X (1..Len(ls)) :
      LET c == pr[1]
          o == pr[2]
      IN /\ 1 < c /\ c + 1 < o /\ o < Len(ls)
         /\ IsOpenLine(ls[1])
         /\ IsBareFence(ls[c])
         /\ \A i \in 2..(c - 1) : ~IsBareFence(ls[i])
         /\ \A i \in (c + 1)..(o - 1) : ~IsOpenLine(ls[i])
         /\ IsOpenLine(ls[o])
         /\ IsBareFence(ls[Len(ls)])
         /\ \A i \in (o + 1)..(Len(ls) - 1) : ~IsBareFence(ls[i]) }

\* C5: no captured body holds a line of exactly three backticks, and two
\* fences in sequence give two matches, each ending at its own closing line.
C5_NonGreedy ==
  Highlighted =>
    /\ \A k \in 1..Len(matches) :
         LET body == SplitLines(matches[k].code)
         IN \A i \in 1..Len(body) : ~IsBareFence(body[i])
    /\ \A pr \in TwoFences(Lines) :
         /\ matches = << FenceAsMatch(Lines, 1, pr[1]),
                         FenceAsMatch(Lines, pr[2], Len(Lines)) >>
         /\ NumWrappers(hl) = 2

C5_Witness ==
  /\ Highlighted
  /\ TwoFences(Lines) # {}
  /\ NumWrappers(hl) = 2

Pipeline == << "read_text", "md_highlight", "md_parse", "tidy_html", "print" >>

\* C6: the stages run once each in the order read, md_highlight, md_parse,
\* tidy_html, print, each on the whole output of the one before.
C6_StageOrder ==
  /\ IsPrefix(calls, Pipeline)
  /\ Highlighted => hl = md_highlight(md)
  /\ Called("md_parse") => parsed = md_parse(hl)
  /\ Called("tidy_html") => html = tidy_html(parsed)
  /\ Called("print") => stdout = << [text |-> html, end |-> NL] >>
  /\ (pc = "exit" /\ status = 0) =>
       /\ calls = Pipeline
       /\ stdout = << [text |-> tidy_html(md_parse(md_highlight(md))), end |-> NL] >>

C6_Witness ==
  /\ pc = "exit"
  /\ status = 0
  /\ Len(matches) >= 1
  /\ calls = Pipeline

\* C7: with a bad argument list or an unreadable file no stage is called and
\* nothing is printed; the program ends at once with a failure status, the
\* error not caught.
C7_NoPipelineOnError ==
  (Len(argv) # 1 \/ ~readable) =>
    /\ ~Called("md_highlight") /\ ~Called("md_parse") /\ ~Called("tidy_html")
    /\ stdout = <<>>
    /\ pc \in {"run", "md2kb", "exit"}
    /\ Len(argv) # 1 => pc \in {"run", "exit"}
    /\ pc = "exit" =>
         /\ status \in {1, 2}
         /\ exc = IF Len(argv) # 1 THEN "SystemExit" ELSE "OSError"

C7_Witness ==
  /\ pc = "exit"
  /\ Len(argv) = 1
  /\ ~readable
  /\ status = 1
  /\ exc = "OSError"

\* C8: every match starts at the start of an opening line (three backticks,
\* then nothing or [a-z]+) and ends at the end of a later line of exactly
\* three backticks; a line with other characters around its backticks
\* neither opens nor closes a match.
C8_WholeLines ==
  Highlighted =>
    \A k \in 1..Len(matches) :
      LET m == matches[k]
          i == LineOf(Lines, m.start)
          j == LineOf(Lines, m.end - 1)
      IN /\ m.start = LineStart(Lines, i)
         /\ IsOpenLine(Lines[i])
         /\ i < j
         /\ IsBareFence(Lines[j])
         /\ m.end = LineStart(Lines, j) + 3

C8_Witness ==
  /\ Highlighted
  /\ Len(Lines) = 4
  /\ Lines[1] = << "x" >> \o Fence3
  /\ Lines[4] = Fence3 \o << "X" >>
  /\ Len(matches) = 1

\* the fences of the scanner, as matches
ScanMatches(ls) ==
  LET f == ScanFences(ls)
  IN [k \in 1..Len(f) |-> FenceAsMatch(ls, f[k].open, f[k].close)]

\* C9: the matches of CODE_RE are the fences of the line scanner: the same
\* opening line, tag, body and closing line, in the same order.
C9_ScannerEquivalence ==
  Highlighted => matches = ScanMatches(Lines)

C9_Witness ==
  /\ Highlighted
  /\ Len(matches) >= 1
  /\ matches = ScanMatches(Lines)
  /\ \E i \in 2..(Len(Lines) - 1) :
       /\ IsOpenLine(Lines[i])
       /\ ~IsBareFence(Lines[i])
       /\ LineStart(Lines, i) > matches[1].start
       /\ LineStart(Lines, i) < matches[1].end

\* an opening line with no later line of exactly three backticks, which is
\* not itself the closing line of a fence
Unterminated(ls) ==
  { i \in 1..Len(ls) :
      /\ IsOpenLine(ls[i])
      /\ \A j \in (i + 1)..Len(ls) : ~IsBareFence(ls[j])
      /\ \A k \in 1..Len(ScanFences(ls)) : ScanFences(ls)[k].close # i }

\* C10: an unterminated opening line gets no wrapper: every match ends
\* before it, the output ends with the input from that line on, and the
\* fences closed before it are replaced.
C10_Unterminated ==
  Highlighted =>
    \A i \in Unterminated(Lines) :
      LET from == LineStart(Lines, i)
          n == Len(md) - from + 1
          last == hl[Len(hl)]
      IN /\ \A k \in 1..Len(matches) : matches[k].end < from
         /\ ~last.wrap
         /\ Len(last.text) >= n
         /\ SubSeq(last.text, Len(last.text) - n + 1, Len(last.text))
              = SubSeq(md, from, Len(md))
         /\ NumWrappers(hl) = Len(ScanFences(Lines))

C10_Witness ==
  /\ Highlighted
  /\ NumWrappers(hl) = 1
  /\ \E i \in Unterminated(Lines) : i < Len(Lines)

====
